---- MODULE Spec2Model ----
(***************************************************************************)
(* Model of Implementasi_Regex.py: RegexValidator, RegexExtractor and      *)
(* RegexReplacer.  Every method is a pure function of its arguments, built *)
(* from one regular expression and one call of the re module (re.match,    *)
(* re.findall, re.sub).  A string is a sequence of one-character strings.  *)
(* The re module is modelled by a backtracking matcher over pattern trees  *)
(* (greedy quantifiers, ordered alternation, leftmost match), so that each *)
(* pattern below is a transcription of the pattern in the source.          *)
(***************************************************************************)
EXTENDS Integers, Sequences, FiniteSets, TLC

VARIABLES text, words, op, result

vars == <<text, words, op, result>>

(***************************************************************************)
(* Characters.                                                             *)
(***************************************************************************)
LowerSeq == <<"a","b","c","d","e","f","g","h","i","j","k","l","m",
              "n","o","p","q","r","s","t","u","v","w","x","y","z">>

UpperSeq == <<"A","B","C","D","E","F","G","H","I","J","K","L","M",
              "N","O","P","Q","R","S","T","U","V","W","X","Y","Z">>

Lower == {LowerSeq[i] : i \in DOMAIN LowerSeq}

Upper == {UpperSeq[i] : i \in DOMAIN UpperSeq}

Digit == {"0","1","2","3","4","5","6","7","8","9"}

\* \w of the re module, on ASCII text
WordChar == Lower \cup Upper \cup Digit \cup {"_"}

\* \s of the re module and the characters str.strip() removes, on ASCII text
Space == {" ", "\t", "\n", "\r", "\f"}

\* the lower-case form IGNORECASE compares characters by
FoldCase(c) ==
    IF c \in Upper THEN LowerSeq[CHOOSE i \in DOMAIN UpperSeq : UpperSeq[i] = c] ELSE c

(***************************************************************************)
(* Pattern trees.                                                          *)
(***************************************************************************)
Cls(S) == [t |-> "cls", set |-> S]

NotCls(S) == [t |-> "ncls", set |-> S]

Lit(c) == [t |-> "lit", c |-> c, ic |-> FALSE]

LitIC(c) == [t |-> "lit", c |-> c, ic |-> TRUE]

Bol == [t |-> "bol"]

Eol == [t |-> "eol"]

WordB == [t |-> "wb"]

Cat(rs) == [t |-> "seq", rs |-> rs]

Alt(rs) == [t |-> "alt", rs |-> rs]

\* r{lo,hi}
Rep(r, lo, hi) == [t |-> "rep", r |-> r, lo |-> lo, hi |-> hi, open |-> FALSE]

\* r{lo,}: r+ is RepFrom(r, 1) and r* is RepFrom(r, 0)
RepFrom(r, lo) == [t |-> "rep", r |-> r, lo |-> lo, hi |-> lo, open |-> TRUE]

\* r?
Opt(r) == Rep(r, 0, 1)

\* a literal string
Str(cs) == Cat([k \in DOMAIN cs |-> Lit(cs[k])])

\* a top-level part of a pattern: a capturing group or not
Group(r) == [cap |-> TRUE, r |-> r]

Plain(r) == [cap |-> FALSE, r |-> r]

(***************************************************************************)
(* The matcher.  Ends(r, s, i) is the sequence of positions (number of     *)
(* characters consumed) where a match of r that starts at i can end, in    *)
(* the order backtracking tries them.                                      *)
(***************************************************************************)
IsWordAt(s, i) == i >= 1 /\ i <= Len(s) /\ s[i] \in WordChar

RECURSIVE Ends(_, _, _), SeqEnds(_, _, _, _), AltEnds(_, _, _, _),
          RepEnds(_, _, _, _), Thread(_, _, _, _, _), ThreadRep(_, _, _, _, _, _)

\* for each end es[k], es[k+1], ... in turn, the ends of the rest rs[n..] from there
Thread(rs, s, es, k, n) ==
    IF k > Len(es) THEN <<>>
    ELSE SeqEnds(rs, s, es[k], n) \o Thread(rs, s, es, k + 1, n)

SeqEnds(rs, s, i, n) ==
    IF n > Len(rs) THEN <<i>>
    ELSE Thread(rs, s, Ends(rs[n], s, i), 1, n + 1)

AltEnds(rs, s, i, n) ==
    IF n > Len(rs) THEN <<>>
    ELSE Ends(rs[n], s, i) \o AltEnds(rs, s, i, n + 1)

\* the iterations after one that ran from i to es[k]; an empty iteration ends the loop
ThreadRep(r, s, i, es, k, n) ==
    IF k > Len(es) THEN <<>>
    ELSE (IF es[k] > i THEN RepEnds(r, s, es[k], n) ELSE <<>>)
         \o ThreadRep(r, s, i, es, k + 1, n)

\* greedy: one more iteration first, then stop here if lo iterations are done
RepEnds(r, s, i, n) ==
    (IF r.open \/ n < r.hi
     THEN ThreadRep(r, s, i, Ends(r.r, s, i), 1, n + 1)
     ELSE <<>>)
    \o (IF n >= r.lo THEN <<i>> ELSE <<>>)

Ends(r, s, i) ==
    CASE r.t = "cls"  -> IF i < Len(s) /\ s[i + 1] \in r.set THEN <<i + 1>> ELSE <<>>
      [] r.t = "ncls" -> IF i < Len(s) /\ s[i + 1] \notin r.set THEN <<i + 1>> ELSE <<>>
      [] r.t = "lit"  -> IF i < Len(s)
                            /\ (IF r.ic THEN FoldCase(s[i + 1]) = FoldCase(r.c)
                                        ELSE s[i + 1] = r.c)
                         THEN <<i + 1>> ELSE <<>>
      [] r.t = "bol"  -> IF i = 0 THEN <<i>> ELSE <<>>
      [] r.t = "eol"  -> IF i = Len(s) \/ (i = Len(s) - 1 /\ s[Len(s)] = "\n")
                         THEN <<i>> ELSE <<>>
      [] r.t = "wb"   -> IF IsWordAt(s, i) # IsWordAt(s, i + 1) THEN <<i>> ELSE <<>>
      [] r.t = "seq"  -> SeqEnds(r.rs, s, i, 1)
      [] r.t = "alt"  -> AltEnds(r.rs, s, i, 1)
      [] r.t = "rep"  -> RepEnds(r, s, i, 0)

(***************************************************************************)
(* A pattern is a sequence of top-level parts.  MatchAt(pat, s, i) is the  *)
(* match the engine finds at position i: the boundaries <<i, e1, .., ek>>  *)
(* of the parts on the first path that succeeds, or <<>> when none does.   *)
(***************************************************************************)
RECURSIVE PartsFrom(_, _, _, _), TryEnds(_, _, _, _, _, _)

TryEnds(pat, s, i, es, k, n) ==
    IF k > Len(es) THEN <<>>
    ELSE LET m == PartsFrom(pat, s, es[k], n + 1)
         IN  IF m # <<>> THEN <<i>> \o m ELSE TryEnds(pat, s, i, es, k + 1, n)

PartsFrom(pat, s, i, n) ==
    IF n > Len(pat) THEN <<i>>
    ELSE TryEnds(pat, s, i, Ends(pat[n].r, s, i), 1, n)

MatchAt(pat, s, i) == PartsFrom(pat, s, i, 1)

MatchStart(m) == m[1]

MatchEnd(m) == m[Len(m)]

\* the text part n of the pattern matched
PartText(s, m, n) == SubSeq(s, m[n] + 1, m[n + 1])

\* the indices of the capturing parts, in order: group g is part GroupParts(pat)[g]
RECURSIVE GroupPartsFrom(_, _)

GroupPartsFrom(pat, n) ==
    IF n > Len(pat) THEN <<>>
    ELSE (IF pat[n].cap THEN <<n>> ELSE <<>>) \o GroupPartsFrom(pat, n + 1)

GroupParts(pat) == GroupPartsFrom(pat, 1)

GroupText(pat, s, m, g) == PartText(s, m, GroupParts(pat)[g])

WholeText(s, m) == SubSeq(s, MatchStart(m) + 1, MatchEnd(m))

\* re.match: a match at the start of the string, or none
re_match(pat, s) == MatchAt(pat, s, 0)

bool(m) == m # <<>>

\* the non-overlapping matches, leftmost first, scanning from pos
RECURSIVE Scan(_, _, _)

Scan(pat, s, pos) ==
    IF pos > Len(s) THEN <<>>
    ELSE LET m == MatchAt(pat, s, pos)
         IN  IF m = <<>> THEN Scan(pat, s, pos + 1)
             ELSE <<m>> \o Scan(pat, s, IF MatchEnd(m) > pos THEN MatchEnd(m) ELSE pos + 1)

\* re.findall: the whole matches when the pattern has no group, the text of the
\* group when it has one, the tuples of the groups' texts when it has several
re_findall(pat, s) ==
    LET ms == Scan(pat, s, 0)
        gs == GroupParts(pat)
    IN  [j \in 1..Len(ms) |->
            IF Len(gs) = 0 THEN WholeText(s, ms[j])
            ELSE IF Len(gs) = 1 THEN GroupText(pat, s, ms[j], 1)
            ELSE [g \in 1..Len(gs) |-> GroupText(pat, s, ms[j], g)]]

\* a replacement template: characters <<"c", ch>> and group references <<"g", n>>
Chr(c) == <<"c", c>>

Ref(g) == <<"g", g>>

RECURSIVE Expand(_, _, _, _, _)

Expand(repl, pat, s, m, k) ==
    IF k > Len(repl) THEN <<>>
    ELSE (IF repl[k][1] = "g" THEN GroupText(pat, s, m, repl[k][2]) ELSE <<repl[k][2]>>)
         \o Expand(repl, pat, s, m, k + 1)

\* re.sub: the text with every match replaced by the expanded template
RECURSIVE SubFrom(_, _, _, _, _, _)

SubFrom(pat, repl, s, ms, k, pos) ==
    IF k > Len(ms) THEN SubSeq(s, pos + 1, Len(s))
    ELSE SubSeq(s, pos + 1, MatchStart(ms[k]))
         \o Expand(repl, pat, s, ms[k], 1)
         \o SubFrom(pat, repl, s, ms, k + 1, MatchEnd(ms[k]))

re_sub(pat, repl, s) == SubFrom(pat, repl, s, Scan(pat, s, 0), 1, 0)

(***************************************************************************)
(* RegexValidator                                                          *)
(***************************************************************************)
Letter == Lower \cup Upper

Alnum == Letter \cup Digit

\* [a-zA-Z0-9._%+-]
EmailLocalChar == Alnum \cup {".", "_", "%", "+", "-"}

\* [a-zA-Z0-9.-]
EmailDomainChar == Alnum \cup {".", "-"}

\* (\+62|62|0)
PhonePrefix == Alt(<<Str(<<"+", "6", "2">>), Str(<<"6", "2">>), Lit("0")>>)

\* [-a-zA-Z0-9@:%._\+~#=]
UrlHostChar == Alnum \cup {"-", "@", ":", "%", ".", "_", "+", "~", "#", "="}

\* [a-zA-Z0-9()]
UrlTldChar == Alnum \cup {"(", ")"}

\* [-a-zA-Z0-9()@:%_\+.~#?&/=]
UrlPathChar == Alnum \cup {"-", "(", ")", "@", ":", "%", "_", "+", ".", "~", "#", "?", "&", "/", "="}

\* https?://(?:www\.)?[...]{1,256}\.[...]{1,6}\b(?:[...]*)
UrlBody ==
    <<Plain(Str(<<"h", "t", "t", "p">>)), Plain(Opt(Lit("s"))),
      Plain(Str(<<":", "/", "/">>)),
      Plain(Opt(Str(<<"w", "w", "w", ".">>))),
      Plain(Rep(Cls(UrlHostChar), 1, 256)), Plain(Lit(".")),
      Plain(Rep(Cls(UrlTldChar), 1, 6)), Plain(WordB),
      Plain(RepFrom(Cls(UrlPathChar), 0))>>

\* ^[a-zA-Z0-9._%+-]+@[a-zA-Z0-9.-]+\.[a-zA-Z]{2,}$
validate_email_pattern ==
    <<Plain(Bol), Plain(RepFrom(Cls(EmailLocalChar), 1)), Plain(Lit("@")),
      Plain(RepFrom(Cls(EmailDomainChar), 1)), Plain(Lit(".")),
      Plain(RepFrom(Cls(Letter), 2)), Plain(Eol)>>

validate_email(email) == bool(re_match(validate_email_pattern, email))

\* ^(\+62|62|0)[0-9]{9,12}$
validate_phone_id_pattern ==
    <<Plain(Bol), Group(PhonePrefix), Plain(Rep(Cls(Digit), 9, 12)), Plain(Eol)>>

validate_phone_id(phone) == bool(re_match(validate_phone_id_pattern, phone))

validate_url_pattern == <<Plain(Bol)>> \o UrlBody \o <<Plain(Eol)>>

validate_url(url) == bool(re_match(validate_url_pattern, url))

\* ^\d{16}$
validate_nik_pattern == <<Plain(Bol), Plain(Rep(Cls(Digit), 16, 16)), Plain(Eol)>>

validate_nik(nik) == bool(re_match(validate_nik_pattern, nik))

(***************************************************************************)
(* RegexExtractor                                                          *)
(***************************************************************************)
\* \b[a-zA-Z0-9._%+-]+@[a-zA-Z0-9.-]+\.[a-zA-Z]{2,}\b
extract_emails_pattern ==
    <<Plain(WordB), Plain(RepFrom(Cls(EmailLocalChar), 1)), Plain(Lit("@")),
      Plain(RepFrom(Cls(EmailDomainChar), 1)), Plain(Lit(".")),
      Plain(RepFrom(Cls(Letter), 2)), Plain(WordB)>>

extract_emails(t) == re_findall(extract_emails_pattern, t)

\* (\+62|62|0)[0-9]{9,12}
extract_phone_numbers_pattern == <<Group(PhonePrefix), Plain(Rep(Cls(Digit), 9, 12))>>

extract_phone_numbers(t) == re_findall(extract_phone_numbers_pattern, t)

extract_urls_pattern == UrlBody

extract_urls(t) == re_findall(extract_urls_pattern, t)

(***************************************************************************)
(* RegexReplacer                                                           *)
(***************************************************************************)
\* \b([a-zA-Z0-9._%+-]+)@([a-zA-Z0-9.-]+\.[a-zA-Z]{2,})\b
mask_email_pattern ==
    <<Plain(WordB), Group(RepFrom(Cls(EmailLocalChar), 1)), Plain(Lit("@")),
      Group(Cat(<<RepFrom(Cls(EmailDomainChar), 1), Lit("."), RepFrom(Cls(Letter), 2)>>)),
      Plain(WordB)>>

\* \1***@\2
mask_email_repl == <<Ref(1), Chr("*"), Chr("*"), Chr("*"), Chr("@"), Ref(2)>>

mask_email(t) == re_sub(mask_email_pattern, mask_email_repl, t)

\* (\+62|62|0)(\d{6,8})(\d{4}): the middle run one digit too long at its lower end
mask_phone_pattern_gap ==
    <<Group(PhonePrefix), Group(Rep(Cls(Digit), 6, 8)), Group(Rep(Cls(Digit), 4, 4))>>

\* (\+62|62|0)(\d{5,8})(\d{4})
mask_phone_pattern ==
    <<Group(PhonePrefix), Group(Rep(Cls(Digit), 5, 8)), Group(Rep(Cls(Digit), 4, 4))>>

\* \1****\2: the middle digits put back in place of the last four
mask_phone_repl_middle == <<Ref(1), Chr("*"), Chr("*"), Chr("*"), Chr("*"), Ref(2)>>

\* \1****\3
mask_phone_repl == <<Ref(1), Chr("*"), Chr("*"), Chr("*"), Chr("*"), Ref(3)>>

mask_phone(t) == re_sub(mask_phone_pattern, mask_phone_repl, t)

\* <[^<>]+>: a tag may hold no "<" either
remove_html_tags_pattern_strict ==
    <<Plain(Lit("<")), Plain(RepFrom(NotCls({"<", ">"}), 1)), Plain(Lit(">"))>>

\* <[^>]+>
remove_html_tags_pattern ==
    <<Plain(Lit("<")), Plain(RepFrom(NotCls({">"}), 1)), Plain(Lit(">"))>>

\* re.sub(pattern, '', text, count=1): only the first tag goes
remove_html_tags_once(t) ==
    LET ms == Scan(remove_html_tags_pattern, t, 0)
    IN  SubFrom(remove_html_tags_pattern, <<>>, t, IF ms = <<>> THEN <<>> ELSE <<ms[1]>>, 1, 0)

remove_html_tags(t) == re_sub(remove_html_tags_pattern, <<>>, t)

\* str.strip(): the text without its leading and trailing whitespace
RECURSIVE lstrip(_), rstrip(_)

lstrip(s) == IF s # <<>> /\ Head(s) \in Space THEN lstrip(Tail(s)) ELSE s

rstrip(s) == IF s # <<>> /\ s[Len(s)] \in Space THEN rstrip(SubSeq(s, 1, Len(s) - 1)) ELSE s

strip(s) == rstrip(lstrip(s))

\* \s+
normalize_whitespace_pattern == <<Plain(RepFrom(Cls(Space), 1))>>

\* the substitution without the strip()
normalize_whitespace_nostrip(t) == re_sub(normalize_whitespace_pattern, <<Chr(" ")>>, t)

normalize_whitespace(t) == strip(re_sub(normalize_whitespace_pattern, <<Chr(" ")>>, t))

\* the characters re.escape puts a backslash before
SpecialChars == {"(", ")", "[", "]", "{", "}", "?", "*", "+", "-", "|", "^", "$", "\\",
                 ".", "&", "~", "#", " ", "\t", "\n", "\r", "\f"}

\* the word used as a pattern as it is
re_escape_none(w) == w

RECURSIVE re_escape(_)

re_escape(w) ==
    IF w = <<>> THEN <<>>
    ELSE (IF Head(w) \in SpecialChars THEN <<"\\", Head(w)>> ELSE <<Head(w)>>)
         \o re_escape(Tail(w))

\* re.compile(p, re.IGNORECASE) of an escaped word: an escaped character is that
\* character, an unescaped "." is any character but a newline, any other character
\* is itself; letters match in either case
RECURSIVE re_compile_ic(_)

re_compile_ic(p) ==
    IF p = <<>> THEN <<>>
    ELSE IF Head(p) = "\\" /\ Len(p) >= 2
         THEN <<Plain(LitIC(p[2]))>> \o re_compile_ic(Tail(Tail(p)))
    ELSE IF Head(p) = "." THEN <<Plain(NotCls({"\n"}))>> \o re_compile_ic(Tail(p))
    ELSE <<Plain(LitIC(Head(p)))>> \o re_compile_ic(Tail(p))

\* '*' * len(word)
Stars(n) == [k \in 1..n |-> Chr("*")]

\* one pass of the loop: text = pattern.sub('*' * len(word), text)
censor_step(t, word) == re_sub(re_compile_ic(re_escape(word)), Stars(Len(word)), t)

RECURSIVE censor_from(_, _, _)

censor_from(t, ws, k) ==
    IF k > Len(ws) THEN t ELSE censor_from(censor_step(t, ws[k]), ws, k + 1)

censor_profanity(t, ws) == censor_from(t, ws, 1)

(***************************************************************************)
(* The inputs the calls are checked on.                                    *)
(***************************************************************************)
MaxDigits == 13

MaxNikDigits == 17

MaxEmailLen == 6

MaxHtmlLen == 7

MaxWsLen == 5

MaxCensorLen == 3

MaxWords == 2

\* every string over alphabet of length at most n
Strings(alphabet, n) == UNION {[1..k -> alphabet] : k \in 0..n}

DigitCycle == <<"8", "1", "2", "3", "4", "5", "6", "7", "9", "0">>

\* a run of n digits
DigitRun(n) == [k \in 1..n |-> DigitCycle[((k - 1) % 10) + 1]]

Prefixes == {<<"+", "6", "2">>, <<"6", "2">>, <<"0">>}

\* a prefix and a run of digits, alone or with text around it, and two numbers
\* in one text
PhoneTexts ==
    {lead \o pre \o DigitRun(n) \o trail :
        lead \in {<<>>, <<" ">>, <<"a">>, <<"+">>, <<"6">>},
        pre \in Prefixes, n \in 0..MaxDigits,
        trail \in {<<>>, <<"\n">>, <<" ">>, <<"a">>}}
    \cup {p1 \o DigitRun(n1) \o <<" ">> \o p2 \o DigitRun(n2) :
             p1 \in Prefixes, p2 \in Prefixes, n1 \in {9, 12}, n2 \in {9, 12}}

NikTexts ==
    {lead \o DigitRun(n) \o trail :
        lead \in {<<>>, <<"a">>}, n \in 0..MaxNikDigits,
        trail \in {<<>>, <<"\n">>, <<"\n", "\n">>, <<"a">>, <<" ">>}}

EmailTexts ==
    Strings({"a", ".", "@"}, MaxEmailLen)
    \cup {<<"u", "s", "e", "r", "@", "g", "m", "a", "i", "l", ".", "c", "o", "m">>,
          <<"i", "n", "v", "a", "l", "i", "d", ".", "e", "m", "a", "i", "l">>,
          <<"-", "a", "@", "b", ".", "c", "o">>,
          <<"-", "@", "b", ".", "c", "o">>,
          <<"a", "@", "b", ".", "c", "o", "\n">>,
          <<"a", "_", "b", "@", "c", "-", "d", ".", "c", "o", ".", "i", "d">>,
          <<"x", " ", "a", "@", "b", ".", "c", "o", " ", "c", "@", "d", ".", "e", "f">>}

UrlTexts ==
    {scheme \o <<":", "/", "/">> \o www \o host \o <<".">> \o tld \o path \o trail :
        scheme \in {<<"h", "t", "t", "p">>, <<"h", "t", "t", "p", "s">>, <<"h", "t", "p">>},
        www \in {<<>>, <<"w", "w", "w", ".">>},
        host \in {<<"a">>, <<"a", "-", "b">>},
        tld \in {<<"c", "o">>, <<"c">>, <<"c", ")">>, <<"a", "b", "c", "d", "e", "f", "g">>},
        path \in {<<>>, <<"/", "x">>, <<"/", "x", "?", "y", "=", "1">>, <<" ", "z">>},
        trail \in {<<>>, <<"\n">>}}

FormatTexts == PhoneTexts \cup NikTexts \cup EmailTexts \cup UrlTexts

HtmlTexts == Strings({"<", ">", "a"}, MaxHtmlLen)

WsTexts == Strings({" ", "\t", "\n", "a"}, MaxWsLen)

CensorTexts == Strings({"a", "B", "*", "."}, MaxCensorLen)

CensorWords ==
    {<<"a">>, <<"A", "b">>, <<"b", "a">>, <<"a", "a">>, <<"*", "b">>, <<".">>}

WordLists == Strings(CensorWords, MaxWords)

(***************************************************************************)
(* The calls.  text and words are the arguments of the call, op the method *)
(* called last and result what it returned.                                *)
(***************************************************************************)
NoCall == "none"

ValidateEmail ==
    /\ op' = "validate_email"
    /\ result' = validate_email(text)
    /\ UNCHANGED <<text, words>>

ValidatePhoneId ==
    /\ op' = "validate_phone_id"
    /\ result' = validate_phone_id(text)
    /\ UNCHANGED <<text, words>>

ValidateUrl ==
    /\ op' = "validate_url"
    /\ result' = validate_url(text)
    /\ UNCHANGED <<text, words>>

ValidateNik ==
    /\ op' = "validate_nik"
    /\ result' = validate_nik(text)
    /\ UNCHANGED <<text, words>>

ExtractEmails ==
    /\ op' = "extract_emails"
    /\ result' = extract_emails(text)
    /\ UNCHANGED <<text, words>>

ExtractPhoneNumbers ==
    /\ op' = "extract_phone_numbers"
    /\ result' = extract_phone_numbers(text)
    /\ UNCHANGED <<text, words>>

ExtractUrls ==
    /\ op' = "extract_urls"
    /\ result' = extract_urls(text)
    /\ UNCHANGED <<text, words>>

MaskEmail ==
    /\ op' = "mask_email"
    /\ result' = mask_email(text)
    /\ UNCHANGED <<text, words>>

MaskPhone ==
    /\ op' = "mask_phone"
    /\ result' = mask_phone(text)
    /\ UNCHANGED <<text, words>>

RemoveHtmlTags ==
    /\ op' = "remove_html_tags"
    /\ result' = remove_html_tags(text)
    /\ UNCHANGED <<text, words>>

NormalizeWhitespace ==
    /\ op' = "normalize_whitespace"
    /\ result' = normalize_whitespace(text)
    /\ UNCHANGED <<text, words>>

CensorProfanity ==
    /\ op' = "censor_profanity"
    /\ result' = censor_profanity(text, words)
    /\ UNCHANGED <<text, words>>

\* the validators, extractors and masks of the data formats
Init ==
    /\ text \in FormatTexts
    /\ words = <<>>
    /\ op = NoCall
    /\ result = <<>>

Next ==
    \/ ValidateEmail
    \/ ValidatePhoneId
    \/ ValidateUrl
    \/ ValidateNik
    \/ ExtractEmails
    \/ ExtractPhoneNumbers
    \/ ExtractUrls
    \/ MaskEmail
    \/ MaskPhone

Spec == Init /\ [][Next]_vars

\* remove_html_tags
InitHtml ==
    /\ text \in HtmlTexts
    /\ words = <<>>
    /\ op = NoCall
    /\ result = <<>>

NextHtml == RemoveHtmlTags

SpecHtml == InitHtml /\ [][NextHtml]_vars

\* normalize_whitespace
InitWs ==
    /\ text \in WsTexts
    /\ words = <<>>
    /\ op = NoCall
    /\ result = <<>>

NextWs == NormalizeWhitespace

SpecWs == InitWs /\ [][NextWs]_vars

\* censor_profanity
InitCensor ==
    /\ text \in CensorTexts
    /\ words \in WordLists
    /\ op = NoCall
    /\ result = <<>>

NextCensor == CensorProfanity

SpecCensor == InitCensor /\ [][NextCensor]_vars

(***************************************************************************)
(* What the claims speak of, said without the matcher.                     *)
(***************************************************************************)
AllDigits(s) == \A i \in DOMAIN s : s[i] \in Digit

HasPrefix(s, p) == Len(s) >= Len(p) /\ SubSeq(s, 1, Len(p)) = p

\* s is one of the prefixes followed by lo to hi digits and nothing else
PhoneShape(s, lo, hi) ==
    \E p \in Prefixes :
        /\ HasPrefix(s, p)
        /\ AllDigits(SubSeq(s, Len(p) + 1, Len(s)))
        /\ Len(s) - Len(p) \in lo..hi

PrefixOf(s) == CHOOSE p \in Prefixes : HasPrefix(s, p)

Last4(s) == SubSeq(s, Len(s) - 3, Len(s))

Masked(s) == PrefixOf(s) \o <<"*", "*", "*", "*">> \o Last4(s)

Chars(s) == {s[i] : i \in DOMAIN s}

\* the elements of found lie in s one after the other, none overlapping the one before
RECURSIVE InOrder(_, _, _, _)

InOrder(s, found, k, from) ==
    IF k > Len(found) THEN TRUE
    ELSE \E i \in from..Len(s) :
            /\ i + Len(found[k]) <= Len(s)
            /\ SubSeq(s, i + 1, i + Len(found[k])) = found[k]
            /\ InOrder(s, found, k + 1, i + Len(found[k]))

\* the place of the "@" of an address that holds exactly one
AtSign(s) == CHOOSE i \in DOMAIN s : s[i] = "@"

\* the first ">" after position i, or 0
NextClose(s, i) ==
    IF \E j \in (i + 1)..Len(s) : s[j] = ">"
    THEN CHOOSE j \in (i + 1)..Len(s) : s[j] = ">" /\ \A k \in (i + 1)..(j - 1) : s[k] # ">"
    ELSE 0

\* s from position i on, without the spans "<", one or more characters other
\* than ">", ">"
RECURSIVE StripSpans(_, _)

StripSpans(s, i) ==
    IF i > Len(s) THEN <<>>
    ELSE IF s[i] = "<" /\ NextClose(s, i) >= i + 2 THEN StripSpans(s, NextClose(s, i) + 1)
    ELSE <<s[i]>> \o StripSpans(s, i + 1)

\* the same, a span holding no "<" inside either
RECURSIVE StripStrictSpans(_, _)

StripStrictSpans(s, i) ==
    IF i > Len(s) THEN <<>>
    ELSE IF /\ s[i] = "<"
            /\ NextClose(s, i) >= i + 2
            /\ \A k \in (i + 1)..(NextClose(s, i) - 1) : s[k] # "<"
         THEN StripStrictSpans(s, NextClose(s, i) + 1)
    ELSE <<s[i]>> \o StripStrictSpans(s, i + 1)

\* s holds "<", one or more characters other than ">", ">"
HasTag(s) == \E i \in DOMAIN s : s[i] = "<" /\ NextClose(s, i) >= i + 2

\* word w occurs in t at position i, letters compared without case
Occurs(t, w, i) ==
    /\ i + Len(w) - 1 <= Len(t)
    /\ \A k \in 1..Len(w) : FoldCase(t[i + k - 1]) = FoldCase(w[k])

\* the occurrences <<first position, length>> of the words of ws in t
Occurrences(t, ws) ==
    {sp \in (1..Len(t)) \X {Len(ws[j]) : j \in DOMAIN ws} :
        sp[2] > 0 /\ \E j \in DOMAIN ws : Len(ws[j]) = sp[2] /\ Occurs(t, ws[j], sp[1])}

Cover(sp) == sp[1]..(sp[1] + sp[2] - 1)

\* r is t with every occurrence starred and the rest as it was
Censored(t, ws, r) ==
    /\ Len(r) = Len(t)
    /\ \A p \in 1..Len(t) :
          r[p] = IF \E sp \in Occurrences(t, ws) : p \in Cover(sp) THEN "*" ELSE t[p]

NoOverlap(t, ws) ==
    \A sp1, sp2 \in Occurrences(t, ws) : sp1 # sp2 => Cover(sp1) \cap Cover(sp2) = {}

NoStar(ws) == \A j \in DOMAIN ws : "*" \notin Chars(ws[j])

(***************************************************************************)
(* The claims.                                                             *)
(***************************************************************************)

\* C1: a string its validator accepts, given alone to the extractor of the same
\* format (email, phone, URL), comes back as the one element of the result.
C1_RoundTrip ==
    /\ (op = "extract_emails" /\ validate_email(text)) => result = <<text>>
    /\ (op = "extract_phone_numbers" /\ validate_phone_id(text)) => result = <<text>>
    /\ (op = "extract_urls" /\ validate_url(text)) => result = <<text>>

\* C2: validate_nik returns true exactly for the strings that are 16 digits and
\* nothing else, a trailing newline included in "else".
C2_NikExactly16Digits ==
    op = "validate_nik" => (result <=> (Len(text) = 16 /\ AllDigits(text)))

\* C3: every element extract_phone_numbers returns is a substring of the text with
\* the full phone shape (prefix and 9 to 12 digits), the elements lying in the
\* text left to right without overlap.
C3_ExtractedPhonesHaveFullShape ==
    op = "extract_phone_numbers" =>
        /\ \A j \in DOMAIN result : PhoneShape(result[j], 9, 12)
        /\ InOrder(text, result, 1, 0)

\* C4 as stated: for a prefix followed by 9 or more digits, mask_phone returns the
\* prefix, four stars and the last 4 digits, and nothing else.
C4_MaskPhoneNineOrMore ==
    (op = "mask_phone" /\ PhoneShape(text, 9, Len(text))) => result = Masked(text)

\* C4 as amended: for a prefix followed by 9 to 12 digits, mask_phone returns the
\* prefix, four stars and the last 4 digits, and nothing else.
C4_MaskPhoneNineToTwelve ==
    (op = "mask_phone" /\ PhoneShape(text, 9, 12)) => result = Masked(text)

C4_Witness ==
    /\ op = "mask_phone"
    /\ PhoneShape(text, 12, 12)
    /\ PrefixOf(text) = <<"+", "6", "2">>
    /\ result = <<"+", "6", "2", "*", "*", "*", "*">> \o Last4(text)

\* C5 as stated: censor_profanity stars every occurrence, in the original text, of
\* every word of the list and leaves every other character as it was, whatever
\* the words and however their occurrences lie.
C5_CensorsEveryOccurrence ==
    op = "censor_profanity" => Censored(text, words, result)

\* C5 as amended: when no word holds a "*" and no two different occurrences of
\* the words in the original text overlap, censor_profanity stars every
\* occurrence and leaves every other character as it was.
C5_CensorsSeparateOccurrences ==
    (op = "censor_profanity" /\ NoStar(words) /\ NoOverlap(text, words))
        => Censored(text, words, result)

C5_Witness ==
    /\ op = "censor_profanity"
    /\ text = <<"B", "a", ".">>
    /\ words = <<<<"b", "a">>, <<".">>>>
    /\ NoStar(words) /\ NoOverlap(text, words)
    /\ result = <<"*", "*", "*">>

\* C6: the result of normalize_whitespace holds no two spaces in a row, no tab or
\* newline, no space at either end, and normalizing it again changes nothing.
C6_NormalizedWhitespace ==
    op = "normalize_whitespace" =>
        /\ \A i \in 1..(Len(result) - 1) : ~(result[i] = " " /\ result[i + 1] = " ")
        /\ Chars(result) \cap {"\t", "\n"} = {}
        /\ result # <<>> => (result[1] # " " /\ result[Len(result)] # " ")
        /\ normalize_whitespace(result) = result

C6_Witness ==
    /\ op = "normalize_whitespace"
    /\ Len(text) = 5
    /\ text[1] = " " /\ text[3] = "\t" /\ text[4] = "\n"
    /\ result = <<"a", " ", "a">>

\* C7: for an accepted address L@D, mask_email returns L, "***@" and D: never the
\* input unchanged, whatever the local part is made of.
C7_MaskEmailUnconditional ==
    (op = "mask_email" /\ validate_email(text)) =>
        result = SubSeq(text, 1, AtSign(text) - 1) \o <<"*", "*", "*", "@">>
                 \o SubSeq(text, AtSign(text) + 1, Len(text))

\* C8 as stated: remove_html_tags removes exactly the spans "<", one or more
\* characters that are neither "<" nor ">", ">", and keeps the rest in order.
C8_RemovesStrictSpans ==
    op = "remove_html_tags" => result = StripStrictSpans(text, 1)

\* C8 as amended: remove_html_tags removes exactly the spans that run from a "<"
\* over one or more characters other than ">" ("<" among them) to the next ">",
\* found left to right, and keeps the rest in order.
C8_RemovesSpans ==
    op = "remove_html_tags" => result = StripSpans(text, 1)

C8_Witness ==
    /\ op = "remove_html_tags"
    /\ text = <<"a", "<", "<", "a", ">", "a">>
    /\ result = <<"a", "a">>

\* C9 as stated: some string validate_phone_id accepts is returned unchanged by
\* mask_phone (looked for among the phone texts and the text of the call).
C9_SomeValidPhoneUnmasked ==
    \E p \in PhoneTexts \cup {text} : validate_phone_id(p) /\ mask_phone(p) = p

\* C9 as amended: every string validate_phone_id accepts is matched by the mask
\* pattern from its prefix to its last digit, and mask_phone does not return it
\* unchanged.
C9_MaskCoversValidPhones ==
    (op = "mask_phone" /\ validate_phone_id(text)) =>
        LET m == re_match(mask_phone_pattern, text)
        IN  /\ bool(m)
            /\ text \in {WholeText(text, m), WholeText(text, m) \o <<"\n">>}
            /\ result # text

C9_Witness ==
    /\ op = "mask_phone"
    /\ validate_phone_id(text)
    /\ text = <<"0">> \o DigitRun(9)
    /\ result = <<"0", "*", "*", "*", "*">> \o Last4(text)

\* C10: the result of remove_html_tags holds no "<", one or more characters other
\* than ">", ">", and removing the tags again changes nothing.
C10_RemoveHtmlIdempotent ==
    op = "remove_html_tags" =>
        /\ ~HasTag(result)
        /\ remove_html_tags(result) = result

C10_Witness ==
    /\ op = "remove_html_tags"
    /\ result # text
    /\ "<" \in Chars(result)
    /\ ">" \in Chars(result)

====
